---------------------------- MODULE Spec2Model ----------------------------
(***************************************************************************)
(* Model of the Kafka client bootstrap and supervision program:            *)
(*   kafka/kafka.go  - Client.Connect, verifyServerCert, the factories,    *)
(*                     Config.topic and Config.group, ShowErrors and       *)
(*                     ShowNotifications                                   *)
(*   main.go         - main (signal trap, deferred cleanup, dispatch loop) *)
(*                     and processMessage                                  *)
(* The process is a set of goroutines over one Client value: main, the     *)
(* signal-trap goroutine, the two supervisor goroutines (ShowErrors and    *)
(* ShowNotifications), and one goroutine per dispatched record.  The       *)
(* broker library (sarama / sarama-cluster) is the environment: it yields  *)
(* records, closes the record stream, and answers Close calls.             *)
(***************************************************************************)
EXTENDS Integers, Sequences, FiniteSets, TLC

(***************************************************************************)
(* Bounds of the model.                                                    *)
(***************************************************************************)
MaxBrokers == 2          \* longest configured broker list
MaxRecords == 2          \* records taken from the inbound stream

(***************************************************************************)
(* Program constants.                                                      *)
(***************************************************************************)
SignalChanCap == 2       \* make(chan os.Signal, 2)
ExitCodeSignal == 1      \* os.Exit(1) in the signal trap
ExitCodeFatal == 1       \* log.Fatal exits with status 1
ExitCodeReturn == 0      \* main returns
ExitCodePanic == 2       \* the Go runtime exits with status 2 on a panic

NoError == "nil"

\* The topic literal of createKafkaConsumer.
TopicName == "order_events"

(***************************************************************************)
(* The environment the process starts in.                                  *)
(***************************************************************************)
Hosts == <<"b1:9096", "b2:9096", "b3:9096", "b4:9096">>
Roots == {"rootA", "rootB"}
Signers == {"rootA", "rogueCA"}
EndpointKinds == {"malformed", "unreachable", "signedRootA", "signedRogue"}
Prefixes == {"", "dev."}
ConsumerGroups == {"heroku-kafka-demo-go"}

\* One comma-separated entry of KAFKA_URL, as url.Parse sees it.
URLEntry(i, kind) ==
    [host |-> Hosts[i], wellFormed |-> kind # "malformed"]

\* What a TLS dial to the entry's host meets.
Server(kind) ==
    [dialOK |-> kind \in {"signedRootA", "signedRogue"},
     signer |-> IF kind = "signedRootA" THEN "rootA" ELSE "rogueCA"]

\* ENVIRONMENT and whether the three materials are valid base64.  In
\* production the material is not base64-decoded, so only one case is kept.
Encodings ==
    {[production |-> TRUE, base64OK |-> TRUE],
     [production |-> FALSE, base64OK |-> TRUE],
     [production |-> FALSE, base64OK |-> FALSE]}

Environments ==
    UNION {
      { [URL |-> [i \in 1..n |-> URLEntry(i, kinds[i])],
         net |-> [i \in 1..n |-> Server(kinds[i])],
         TrustedCert |-> pool,
         KeyPairOK |-> kp,
         Prefix |-> p,
         ConsumerGroup |-> g,
         production |-> enc.production,
         base64OK |-> enc.base64OK] :
          kinds \in [1..n -> EndpointKinds], pool \in SUBSET Roots,
          kp \in BOOLEAN, p \in Prefixes, g \in ConsumerGroups,
          enc \in Encodings } : n \in 1..MaxBrokers }

\* Records the broker may put on the inbound stream (*sarama.ConsumerMessage);
\* NilRecord is the nil pointer.
Records ==
    {[isNil |-> FALSE, Partition |-> 2, Offset |-> 57, Topic |-> "order_events",
      Value |-> "{id:1}"],
     [isNil |-> FALSE, Partition |-> 0, Offset |-> 0, Topic |-> "order_events",
      Value |-> "{id:2}"]}
NilRecord ==
    [isNil |-> TRUE, Partition |-> 0, Offset |-> 0, Topic |-> "", Value |-> ""]
Inbound == Records \cup {NilRecord}

\* The zero value of time.Time.
ZeroTime == "0001-01-01T00:00:00Z"

VARIABLES
    env,              \* the environment variables and the network (fixed)
    proc,             \* the process: [state, code]
    mainPc,           \* position of the main goroutine
    tlsConfig,        \* Connect's tlsConfig, Nil before createTLSConfig
    brokerAddrs,      \* Connect's brokerAddrs
    verifyIdx,        \* index of the next broker the verify loop takes
    verified,         \* per configured endpoint: unverified / passed / failed
    Consumer,         \* kc.Consumer: Nil or the handle
    Producer,         \* kc.Producer: Nil or the handle
    kcConfig,         \* kc.config: Nil or the stored Config
    sigChan,          \* number of signals buffered in channel c
    handlerPc,        \* position of the signal-trap goroutine
    shutdownReported, \* "Closing consumer and producer..." was printed
    messagesClosed,   \* the channel Consumer.Messages() is closed
    nReceived,        \* records the dispatch loop has taken
    message,          \* the loop variable of the dispatch loop
    units,            \* the processMessage goroutines, in spawn order
    reports,          \* what processMessage printed, in print order
    supPc,            \* positions of ShowErrors and ShowNotifications
    errLog,           \* the kinds of line ShowErrors has printed
    noteLog           \* the kinds of line ShowNotifications has printed

connVars == <<tlsConfig, brokerAddrs, verifyIdx, verified, kcConfig>>
handleVars == <<Consumer, Producer, messagesClosed>>
sigVars == <<sigChan, handlerPc, shutdownReported>>
loopVars == <<nReceived, message, units, reports>>
supVars == <<supPc, errLog, noteLog>>
vars == <<env, proc, mainPc, connVars, handleVars, sigVars, loopVars, supVars>>

Running == proc.state = "running"

(***************************************************************************)
(* Pure functions of kafka.go.                                             *)
(***************************************************************************)

\* strings.Join(elems, sep)
RECURSIVE Join(_, _)
Join(elems, sep) ==
    IF Len(elems) = 0 THEN ""
    ELSE IF Len(elems) = 1 THEN elems[1]
    ELSE elems[1] \o sep \o Join(Tail(elems), sep)

\* func (kc *Config) topic(topicName string) string
topic(cfg, topicName) ==
    LET t0 == "" IN
    IF cfg.Prefix # "" THEN Join(<<cfg.Prefix, topicName>>, "") ELSE t0

\* func (kc *Config) group() string
group(cfg) ==
    LET g0 == cfg.ConsumerGroup IN
    IF cfg.Prefix # "" THEN Join(<<cfg.Prefix, g0>>, "") ELSE g0

\* A mutant of verifyServerCert: the error of serverCert.Verify is dropped.
verifyServerCertIgnoresVerify(tc, caCert, server) ==
    IF ~server.dialOK THEN [ok |-> FALSE, err |-> "dial error"]
    ELSE IF caCert = {}
         THEN [ok |-> FALSE, err |-> "Unable to parse Trusted Cert"]
    ELSE [ok |-> TRUE, err |-> NoError]

\* func verifyServerCert(tc, caCert, url) (bool, error): dial, parse the
\* trusted bundle (roots.AppendCertsFromPEM is ok iff a certificate parsed),
\* verify the leaf against the pool.
verifyServerCert(tc, caCert, server) ==
    IF ~server.dialOK THEN [ok |-> FALSE, err |-> "dial error"]
    ELSE IF caCert = {} THEN [ok |-> FALSE, err |-> "Unable to parse Trusted Cert"]
    ELSE IF server.signer \notin caCert
         THEN [ok |-> FALSE, err |-> "x509: unknown authority"]
    ELSE [ok |-> TRUE, err |-> NoError]

\* A mutant of FatalOnVerify: an error is only logged, not fatal.
FatalOnlyWithoutError(res) == res.err = NoError /\ ~res.ok

\* Connect's reaction to one verification result: log.Fatal on an error,
\* log.Fatalf on a result that is not ok.
FatalOnVerify(res) == res.err # NoError \/ ~res.ok

\* A mutant of VerifyLoopDone: the loop stops after the first broker.
VerifyLoopDoneAfterFirst == verifyIdx > 1

\* The range loop over brokerAddrs is exhausted.
VerifyLoopDone == verifyIdx > Len(brokerAddrs)

\* log.Fatal / a panic / os.Exit / return from main: the process is gone.
Exit(state, code) == [state |-> state, code |-> code]

(***************************************************************************)
(* The client handles.                                                     *)
(***************************************************************************)
NilTLS == [built |-> FALSE, InsecureSkipVerify |-> FALSE, RootCAs |-> {}]
NilConsumer ==
    [state |-> "nil", closeCalls |-> 0, topics |-> <<>>, group |-> "",
     brokers |-> <<>>]
NilProducer == [state |-> "nil", closeCalls |-> 0, brokers |-> <<>>]
NilConfig == [stored |-> FALSE, Prefix |-> "", ConsumerGroup |-> ""]

\* What a Close call on handle h can do.  The handle is library code; the
\* program puts no guard in front of it, so every call reaches the handle.
\* A Close of an already closed handle either returns or panics.
CloseOutcomes(h) ==
    IF h.state = "closed" THEN {"returns", "panics"} ELSE {"returns"}

\* The handle after a Close call reached it.
Closed(h) == [h EXCEPT !.state = "closed", !.closeCalls = @ + 1]

(***************************************************************************)
(* Initial state: the process has started, Connect has not run.            *)
(***************************************************************************)
Init ==
    /\ env \in Environments
    /\ proc = Exit("running", 0)
    /\ mainPc = "Connect"
    /\ tlsConfig = NilTLS
    /\ brokerAddrs = <<>>
    /\ verifyIdx = 1
    /\ verified = [i \in DOMAIN env.URL |-> "unverified"]
    /\ Consumer = NilConsumer
    /\ Producer = NilProducer
    /\ kcConfig = NilConfig
    /\ sigChan = 0
    /\ handlerPc = "unborn"
    /\ shutdownReported = FALSE
    /\ messagesClosed = FALSE
    /\ nReceived = 0
    /\ message = NilRecord
    /\ units = <<>>
    /\ reports = <<>>
    /\ supPc = [errors |-> "unborn", notifications |-> "unborn"]
    /\ errLog = {}
    /\ noteLog = {}

(***************************************************************************)
(* Client.Connect                                                          *)
(***************************************************************************)

\* envdecode.MustDecode and the three decodeBase64 calls.
ConnectDecode ==
    /\ Running /\ mainPc = "Connect"
    /\ IF ~env.production /\ ~env.base64OK
       THEN proc' = Exit("fatal", ExitCodeFatal) /\ UNCHANGED mainPc
       ELSE mainPc' = "createTLSConfig" /\ UNCHANGED proc
    /\ UNCHANGED <<supVars, env, connVars, handleVars, sigVars, loopVars>>

\* A mutant of CreateTLSConfig: an unparsable key pair is only logged, like
\* an unparsable root bundle.
CreateTLSConfigLogsKeyPair ==
    /\ Running /\ mainPc = "createTLSConfig"
    /\ tlsConfig' = [built |-> TRUE, InsecureSkipVerify |-> TRUE,
                     RootCAs |-> env.TrustedCert]
    /\ mainPc' = "brokerAddresses"
    /\ UNCHANGED <<supVars, env, proc, brokerAddrs, verifyIdx, verified,
                   kcConfig, handleVars, sigVars, loopVars>>

\* config.createTLSConfig(): an unparsable root bundle is only logged, an
\* unparsable key pair is fatal.
CreateTLSConfig ==
    /\ Running /\ mainPc = "createTLSConfig"
    /\ IF ~env.KeyPairOK
       THEN proc' = Exit("fatal", ExitCodeFatal) /\ UNCHANGED <<mainPc, tlsConfig>>
       ELSE /\ tlsConfig' = [built |-> TRUE, InsecureSkipVerify |-> TRUE,
                             RootCAs |-> env.TrustedCert]
            /\ mainPc' = "brokerAddresses"
            /\ UNCHANGED proc
    /\ UNCHANGED <<supVars, env, brokerAddrs, verifyIdx, verified, kcConfig, handleVars,
                   sigVars, loopVars>>

\* config.brokerAddresses(): one u.Host per entry, fatal on a parse error.
BrokerAddresses ==
    /\ Running /\ mainPc = "brokerAddresses"
    /\ IF \E i \in DOMAIN env.URL : ~env.URL[i].wellFormed
       THEN proc' = Exit("fatal", ExitCodeFatal) /\ UNCHANGED <<mainPc, brokerAddrs>>
       ELSE /\ brokerAddrs' = [i \in DOMAIN env.URL |-> env.URL[i].host]
            /\ mainPc' = "verify"
            /\ UNCHANGED proc
    /\ UNCHANGED <<supVars, env, tlsConfig, verifyIdx, verified, kcConfig, handleVars,
                   sigVars, loopVars>>

\* One iteration of the loop "for _, b := range brokerAddrs".
VerifyBroker ==
    /\ Running /\ mainPc = "verify" /\ ~VerifyLoopDone
    /\ LET res == verifyServerCert(tlsConfig, env.TrustedCert, env.net[verifyIdx]) IN
       /\ verified' = [verified EXCEPT
                         ![verifyIdx] = IF res.ok THEN "passed" ELSE "failed"]
       /\ IF FatalOnVerify(res)
          THEN proc' = Exit("fatal", ExitCodeFatal) /\ UNCHANGED verifyIdx
          ELSE verifyIdx' = verifyIdx + 1 /\ UNCHANGED proc
    /\ UNCHANGED <<supVars, env, mainPc, tlsConfig, brokerAddrs, kcConfig, handleVars,
                   sigVars, loopVars>>

\* The loop is over: "All broker server certificates are valid!".
VerifyDone ==
    /\ Running /\ mainPc = "verify" /\ VerifyLoopDone
    /\ mainPc' = "createKafkaConsumer"
    /\ UNCHANGED <<supVars, env, proc, connVars, handleVars, sigVars, loopVars>>

\* kc.Consumer = config.createKafkaConsumer(brokerAddrs, tlsConfig); the
\* library may refuse the configuration or the connection, which is fatal.
CreateKafkaConsumer ==
    /\ Running /\ mainPc = "createKafkaConsumer"
    /\ \E ok \in BOOLEAN :
         IF ok
         THEN /\ Consumer' = [state |-> "open", closeCalls |-> 0,
                              topics |-> <<topic(env, TopicName)>>,
                              group |-> group(env),
                              brokers |-> brokerAddrs]
              /\ mainPc' = "createKafkaProducer"
              /\ UNCHANGED proc
         ELSE proc' = Exit("fatal", ExitCodeFatal) /\ UNCHANGED <<mainPc, Consumer>>
    /\ UNCHANGED <<supVars, env, connVars, Producer, messagesClosed, sigVars, loopVars>>

\* kc.Producer = config.createKafkaProducer(brokerAddrs, tlsConfig)
CreateKafkaProducer ==
    /\ Running /\ mainPc = "createKafkaProducer"
    /\ \E ok \in BOOLEAN :
         IF ok
         THEN /\ Producer' = [state |-> "open", closeCalls |-> 0,
                              brokers |-> brokerAddrs]
              /\ mainPc' = "storeConfig"
              /\ UNCHANGED proc
         ELSE proc' = Exit("fatal", ExitCodeFatal) /\ UNCHANGED <<mainPc, Producer>>
    /\ UNCHANGED <<supVars, env, connVars, Consumer, messagesClosed, sigVars, loopVars>>

\* kc.config = &config; return kc
StoreConfig ==
    /\ Running /\ mainPc = "storeConfig"
    /\ kcConfig' = [stored |-> TRUE, Prefix |-> env.Prefix,
                    ConsumerGroup |-> env.ConsumerGroup]
    /\ mainPc' = "setup"
    /\ UNCHANGED <<supVars, env, proc, tlsConfig, brokerAddrs, verifyIdx, verified,
                   handleVars, sigVars, loopVars>>

(***************************************************************************)
(* main after Connect                                                      *)
(***************************************************************************)

\* A mutant of MainSetup: Producer.Close() is called without "defer".
MainSetupClosesAtOnce ==
    /\ Running /\ mainPc = "setup"
    /\ handlerPc' = "wait"
    /\ supPc' = [errors |-> "select", notifications |-> "select"]
    /\ Producer' = Closed(Producer)
    /\ mainPc' = "loop"
    /\ UNCHANGED <<errLog, noteLog, env, proc, connVars, Consumer,
                   messagesClosed, sigChan, shutdownReported, loopVars>>

\* make(chan os.Signal, 2), signal.Notify, the go statements for the signal
\* trap and the two supervisors, the two defer statements.
MainSetup ==
    /\ Running /\ mainPc = "setup"
    /\ handlerPc' = "wait"
    /\ supPc' = [errors |-> "select", notifications |-> "select"]
    /\ mainPc' = "loop"
    /\ UNCHANGED <<errLog, noteLog, env, proc, connVars, handleVars, sigChan,
                   shutdownReported, loopVars>>

\* The operating system delivers SIGINT or SIGTERM; signal.Notify does a
\* non-blocking send, so a signal that finds the channel full is dropped.
SignalDelivered ==
    /\ Running /\ handlerPc # "unborn"
    /\ sigChan' = IF sigChan < SignalChanCap THEN sigChan + 1 ELSE sigChan
    /\ UNCHANGED <<supVars, env, proc, mainPc, connVars, handleVars, handlerPc,
                   shutdownReported, loopVars>>

\* A mutant of HandlerReceive: the trap body sits in a loop over c, so a
\* further signal starts it again.
HandlerReceiveAnyTime ==
    /\ Running /\ handlerPc \notin {"unborn", "done"} /\ sigChan > 0
    /\ sigChan' = sigChan - 1
    /\ handlerPc' = "report"
    /\ UNCHANGED <<supVars, env, proc, mainPc, connVars, handleVars,
                   shutdownReported, loopVars>>

\* <-c in the signal trap.
HandlerReceive ==
    /\ Running /\ handlerPc = "wait" /\ sigChan > 0
    /\ sigChan' = sigChan - 1
    /\ handlerPc' = "report"
    /\ UNCHANGED <<supVars, env, proc, mainPc, connVars, handleVars, shutdownReported,
                   loopVars>>

\* fmt.Println("Closing consumer and producer...")
HandlerReport ==
    /\ Running /\ handlerPc = "report"
    /\ shutdownReported' = TRUE
    /\ handlerPc' = "closeProducer"
    /\ UNCHANGED <<supVars, env, proc, mainPc, connVars, handleVars, sigChan, loopVars>>

\* kafkaClient.Producer.Close() in the signal trap.
HandlerCloseProducer ==
    /\ Running /\ handlerPc = "closeProducer"
    /\ \E outcome \in CloseOutcomes(Producer) :
         /\ Producer' = Closed(Producer)
         /\ IF outcome = "panics"
            THEN proc' = Exit("panicked", ExitCodePanic) /\ UNCHANGED handlerPc
            ELSE handlerPc' = "closeConsumer" /\ UNCHANGED proc
    /\ UNCHANGED <<supVars, env, mainPc, connVars, Consumer, messagesClosed, sigChan,
                   shutdownReported, loopVars>>

\* kafkaClient.Consumer.Close() in the signal trap; closing the consumer
\* closes its record stream.
HandlerCloseConsumer ==
    /\ Running /\ handlerPc = "closeConsumer"
    /\ \E outcome \in CloseOutcomes(Consumer) :
         /\ Consumer' = Closed(Consumer)
         /\ messagesClosed' = TRUE
         /\ IF outcome = "panics"
            THEN proc' = Exit("panicked", ExitCodePanic) /\ UNCHANGED handlerPc
            ELSE handlerPc' = "exit" /\ UNCHANGED proc
    /\ UNCHANGED <<supVars, env, mainPc, connVars, Producer, sigChan, shutdownReported,
                   loopVars>>

\* os.Exit(1)
HandlerExit ==
    /\ Running /\ handlerPc = "exit"
    /\ proc' = Exit("exited", ExitCodeSignal)
    /\ handlerPc' = "done"
    /\ UNCHANGED <<supVars, env, mainPc, connVars, handleVars, sigChan, shutdownReported,
                   loopVars>>

\* The broker library closes the channel behind Consumer.Messages().
StreamClose ==
    /\ Running /\ mainPc \in {"setup", "loop"} /\ ~messagesClosed
    /\ messagesClosed' = TRUE
    /\ UNCHANGED <<supVars, env, proc, mainPc, connVars, Consumer, Producer, sigVars,
                   loopVars>>

\* A mutant of LoopReady: the loop waits for the units it spawned.
LoopReadyWhenUnitsDone ==
    /\ mainPc = "loop"
    /\ \A u \in DOMAIN units : units[u].pc = "done"

\* The dispatch loop is at its receive: "go" returns at once, so nothing
\* but the channel holds the loop.
LoopReady == mainPc = "loop"

\* A mutant of Dispatches: the nil check is missing.
DispatchesAll(msg) == TRUE

\* if message != nil
Dispatches(msg) == ~msg.isNil

\* A mutant of LoopContinues: a nil record ends the loop.
LoopContinuesUnlessNil(msg) == ~msg.isNil

\* The range loop goes on after every record it took.
LoopContinues(msg) == TRUE

\* One iteration of "for message := range kafkaClient.Consumer.Messages()":
\* take a record, and for a non-nil one "go processMessage(message, ...)",
\* whose arguments are evaluated here.
MainReceive ==
    /\ Running /\ LoopReady /\ ~messagesClosed /\ nReceived < MaxRecords
    /\ \E m \in Inbound :
         /\ message' = m
         /\ nReceived' = nReceived + 1
         /\ units' = IF Dispatches(m)
                     THEN Append(units, [msg |-> m, pc |-> "start"])
                     ELSE units
         /\ mainPc' = IF LoopContinues(m) THEN "loop" ELSE "deferConsumer"
    /\ UNCHANGED <<supVars, env, proc, connVars, handleVars, sigVars, reports>>

\* The range loop ends: the channel is closed (and drained).
MainStreamEnd ==
    /\ Running /\ LoopReady /\ messagesClosed
    /\ mainPc' = "deferConsumer"
    /\ UNCHANGED <<supVars, env, proc, connVars, handleVars, sigVars, loopVars>>

\* defer kafkaClient.Consumer.Close() (deferred last, run first)
MainDeferConsumer ==
    /\ Running /\ mainPc = "deferConsumer"
    /\ \E outcome \in CloseOutcomes(Consumer) :
         /\ Consumer' = Closed(Consumer)
         /\ messagesClosed' = TRUE
         /\ IF outcome = "panics"
            THEN proc' = Exit("panicked", ExitCodePanic) /\ UNCHANGED mainPc
            ELSE mainPc' = "deferProducer" /\ UNCHANGED proc
    /\ UNCHANGED <<supVars, env, connVars, Producer, sigVars, loopVars>>

\* A mutant of MainDeferProducer: the deferred Producer.Close() is missing.
MainDeferProducerSkipped ==
    /\ Running /\ mainPc = "deferProducer"
    /\ mainPc' = "return"
    /\ UNCHANGED <<supVars, env, proc, connVars, handleVars, sigVars, loopVars>>

\* defer kafkaClient.Producer.Close()
MainDeferProducer ==
    /\ Running /\ mainPc = "deferProducer"
    /\ \E outcome \in CloseOutcomes(Producer) :
         /\ Producer' = Closed(Producer)
         /\ IF outcome = "panics"
            THEN proc' = Exit("panicked", ExitCodePanic) /\ UNCHANGED mainPc
            ELSE mainPc' = "return" /\ UNCHANGED proc
    /\ UNCHANGED <<supVars, env, connVars, Consumer, messagesClosed, sigVars, loopVars>>

\* main returns: the process exits with status 0.
MainReturn ==
    /\ Running /\ mainPc = "return"
    /\ proc' = Exit("exited", ExitCodeReturn)
    /\ mainPc' = "returned"
    /\ UNCHANGED <<supVars, env, connVars, handleVars, sigVars, loopVars>>

(***************************************************************************)
(* processMessage                                                          *)
(***************************************************************************)

\* kafka.Message{Partition: ..., Offset: ..., Topic: ..., Value: ...}; the
\* Metadata field is not set and keeps its zero value.
NewMessage(msg) ==
    [Partition |-> msg.Partition, Offset |-> msg.Offset, Topic |-> msg.Topic,
     Value |-> msg.Value, Metadata |-> [ReceivedAt |-> ZeroTime]]

\* A mutant of UnitRecord: the goroutine reads the loop variable.
UnitReadsLoopVariable(u) == message

\* The record unit u works on: the msg argument bound at its go statement.
UnitRecord(u) == units[u].msg

\* processMessage(msg, kc) of unit u: build the Message and print it.
ProcessMessage(u) ==
    /\ Running /\ u \in DOMAIN units /\ units[u].pc = "start"
    /\ LET m == NewMessage(UnitRecord(u)) IN
         reports' = Append(reports, [unit |-> u, Topic |-> m.Topic,
                                     Partition |-> m.Partition,
                                     Offset |-> m.Offset,
                                     ReceivedAt |-> m.Metadata.ReceivedAt])
    /\ units' = [units EXCEPT ![u].pc = "done"]
    /\ UNCHANGED <<supVars, env, proc, mainPc, connVars, handleVars, sigVars, nReceived,
                   message>>

(***************************************************************************)
(* ShowErrors and ShowNotifications                                        *)
(***************************************************************************)

\* What a receive on a channel of handle h yields: the channels of a closed
\* handle are closed and yield nil, an open handle hands over an event.
Received(h) == [isNil |-> h.state = "closed"]

\* A mutant of ReportsValue: the nil checks are missing.
ReportsAlways(v) == TRUE

\* if notification != nil / success != nil / error != nil
ReportsValue(v) == ~v.isNil

\* A mutant of ErrorEndsProcess: an error is reported with log.Fatal.
ErrorEndsProcessAlways(v) == ~v.isNil

\* The case bodies of ShowErrors only print: nothing in them ends the
\* process.
ErrorEndsProcess(v) == FALSE

\* "for { select { ... } }" has no break and no return.
SupervisorContinues(v) == TRUE

\* The line printed for value v.
Line(v) == IF v.isNil THEN "<nil>" ELSE "event"

\* One iteration of the loop of ShowErrors: a receive from
\* Consumer.Errors() or Producer.Errors(), printed when not nil.
ShowErrors ==
    /\ Running /\ supPc.errors = "select"
    /\ \E src \in {"consumer", "producer"} :
         LET v == Received(IF src = "consumer" THEN Consumer ELSE Producer) IN
           /\ errLog' = IF ReportsValue(v) THEN errLog \cup {Line(v)} ELSE errLog
           /\ proc' = IF ErrorEndsProcess(v) THEN Exit("fatal", ExitCodeFatal)
                      ELSE proc
           /\ supPc' = [supPc EXCEPT
                          !.errors = IF SupervisorContinues(v) THEN "select"
                                     ELSE "done"]
    /\ UNCHANGED <<noteLog, env, mainPc, connVars, handleVars, sigVars, loopVars>>

\* One iteration of the loop of ShowNotifications: a receive from
\* Consumer.Notifications() or Producer.Successes(), printed when not nil.
ShowNotifications ==
    /\ Running /\ supPc.notifications = "select"
    /\ \E src \in {"consumer", "producer"} :
         LET v == Received(IF src = "consumer" THEN Consumer ELSE Producer) IN
           /\ noteLog' = IF ReportsValue(v) THEN noteLog \cup {Line(v)}
                         ELSE noteLog
           /\ supPc' = [supPc EXCEPT
                          !.notifications = IF SupervisorContinues(v) THEN "select"
                                            ELSE "done"]
    /\ UNCHANGED <<errLog, env, proc, mainPc, connVars, handleVars, sigVars,
                   loopVars>>

Next ==
    \/ ConnectDecode
    \/ CreateTLSConfig
    \/ BrokerAddresses
    \/ VerifyBroker
    \/ VerifyDone
    \/ CreateKafkaConsumer
    \/ CreateKafkaProducer
    \/ StoreConfig
    \/ MainSetup
    \/ SignalDelivered
    \/ HandlerReceive
    \/ HandlerReport
    \/ HandlerCloseProducer
    \/ HandlerCloseConsumer
    \/ HandlerExit
    \/ StreamClose
    \/ MainReceive
    \/ MainStreamEnd
    \/ MainDeferConsumer
    \/ MainDeferProducer
    \/ MainReturn
    \/ \E u \in 1..MaxRecords : ProcessMessage(u)
    \/ ShowErrors
    \/ ShowNotifications

Spec == Init /\ [][Next]_vars

\* The steps of main from the end of the dispatch loop to its return.
MainShutdownPath ==
    MainStreamEnd \/ MainDeferConsumer \/ MainDeferProducer \/ MainReturn

\* The environments of the liveness specification: the material is used as
\* given (production), the key pair parses and the bundle holds rootA; the
\* broker list and the prefix range as in Init.
FairInit ==
    /\ Init
    /\ env.production /\ env.KeyPairOK /\ env.TrustedCert = {"rootA"}

\* The Go scheduler runs a runnable goroutine: main is never held back
\* for ever once it can leave the loop.
FairSpec == FairInit /\ [][Next]_vars /\ WF_vars(MainShutdownPath)

(***************************************************************************)
(* The lifecycle of section 4.7, read off the goroutines and the handles.  *)
(***************************************************************************)
Lifecycle ==
    IF Consumer.state = "closed" /\ Producer.state = "closed" THEN "Closed"
    ELSE IF handlerPc \notin {"unborn", "wait"}
            \/ mainPc \in {"deferConsumer", "deferProducer", "return", "returned"}
         THEN "ShuttingDown"
    ELSE IF mainPc \in {"setup", "loop"} THEN "Running"
    ELSE "Starting"

\* The step in which the signal trap takes a signal off channel c.
SignalReceivedStep ==
    handlerPc = "wait" /\ handlerPc' = "report" /\ sigChan' = sigChan - 1

\* The step in which the dispatch loop finds the inbound stream closed.
StreamExhaustedStep ==
    mainPc = "loop" /\ mainPc' = "deferConsumer" /\ messagesClosed

\* Endpoint i cannot pass: the dial fails or the leaf is not signed by a
\* root of the trusted pool.
BadEndpoint(i) ==
    ~env.net[i].dialOK \/ env.net[i].signer \notin env.TrustedCert

(***************************************************************************)
(* Claims                                                                  *)
(***************************************************************************)

\* C1: a consumer or producer handle exists only when every configured
\* broker endpoint has individually passed certificate verification.
C1_VerifyBeforeConstruct ==
    (Consumer.state # "nil" \/ Producer.state # "nil")
        => \A i \in DOMAIN env.URL : verified[i] = "passed"

\* C1 witness: both handles exist over a list of two verified endpoints.
C1_Witness ==
    /\ Len(env.URL) = 2
    /\ Consumer.state = "open" /\ Producer.state = "open"
    /\ \A i \in DOMAIN env.URL : verified[i] = "passed"

\* C2 (as claimed): each handle's close is performed once; no Close call
\* reaches a handle that has already been closed.
C2_SingleRealClose ==
    Consumer.closeCalls <= 1 /\ Producer.closeCalls <= 1

\* C3 (as claimed): running the close path a second time raises no panic,
\* and after both the signal trap and the deferred cleanup have run it the
\* handles are in the closed state a single run leaves.
C3_ShutdownIdempotent ==
    /\ proc.state # "panicked"
    /\ (handlerPc \in {"exit", "done"} /\ mainPc \in {"return", "returned"})
         => Consumer.state = "closed" /\ Producer.state = "closed"

\* C4: once an endpoint that cannot pass has been tried, it is marked
\* failed, the process is terminated at that endpoint, and there is no
\* consumer handle, no producer handle and no stored configuration.
C4_FailFastNoPartialState ==
    \A i \in DOMAIN env.URL :
        (BadEndpoint(i) /\ verified[i] # "unverified")
            => /\ verified[i] = "failed"
               /\ proc.state = "fatal"
               /\ mainPc = "verify" /\ verifyIdx = i
               /\ \A j \in DOMAIN env.URL : j > i => verified[j] = "unverified"
               /\ Consumer = NilConsumer
               /\ Producer = NilProducer
               /\ kcConfig = NilConfig

\* C4 witness: the second of two endpoints failed after the first passed.
C4_Witness ==
    /\ Len(env.URL) = 2
    /\ verified[1] = "passed" /\ verified[2] = "failed"
    /\ proc.state = "fatal"

\* C5: the lifecycle only moves Starting -> Running -> ShuttingDown ->
\* Closed; Running is left only by the receipt of a signal or by the
\* dispatch loop finding the stream closed; Closed is entered only with
\* both handles closed.
C5_LifecycleTransitions ==
    [][ Lifecycle' # Lifecycle =>
          \/ Lifecycle = "Starting" /\ Lifecycle' = "Running"
          \/ /\ Lifecycle = "Running" /\ Lifecycle' = "ShuttingDown"
             /\ SignalReceivedStep \/ StreamExhaustedStep
          \/ /\ Lifecycle = "ShuttingDown" /\ Lifecycle' = "Closed"
             /\ Consumer'.state = "closed" /\ Producer'.state = "closed" ]_vars

\* C5 witness: Closed was reached on the normal-exit path.
C5_Witness ==
    /\ Lifecycle = "Closed"
    /\ mainPc = "return" /\ handlerPc = "wait"

\* C6 (as claimed): once the signal trap has reported the shutdown and
\* closed both handles, the process exits with a non-zero status.
C6_SignalExitNonZero ==
    (proc.state = "exited" /\ handlerPc \in {"exit", "done"})
        => proc.code # 0

\* C7: taking a nil record spawns no unit, reports nothing, touches no
\* handle, and leaves the loop at its receive.
C7_NilRecordSkipped ==
    [][ (nReceived' = nReceived + 1 /\ message'.isNil) =>
          /\ units' = units
          /\ reports' = reports
          /\ mainPc = "loop" /\ mainPc' = "loop"
          /\ proc' = proc
          /\ UNCHANGED <<handleVars, sigVars>> ]_vars

\* C7 witness: a nil record was taken after a dispatched one and the loop
\* is still receiving.
C7_Witness ==
    /\ nReceived = 2 /\ message.isNil
    /\ Len(units) = 1 /\ Len(reports) <= 1
    /\ mainPc = "loop" /\ Running

\* C8: every non-nil record taken spawns exactly one unit, bound to that
\* record, and the receive of the loop never depends on the units: it is
\* enabled whenever the loop is at its receive with the stream open.
C8_OneUnitPerRecordNoWait ==
    /\ [][ (nReceived' = nReceived + 1 /\ ~message'.isNil) =>
             units' = Append(units, [msg |-> message', pc |-> "start"]) ]_vars
    /\ [](( Running /\ mainPc = "loop" /\ ~messagesClosed
            /\ nReceived < MaxRecords ) => ENABLED MainReceive)

\* C8 witness: two units were spawned while the first was still running,
\* and the second finished before the first.
C8_Witness ==
    /\ Len(units) = 2
    /\ units[1].pc = "start" /\ units[2].pc = "done"

\* C9: every report carries the partition, offset and topic of the record
\* its unit was dispatched for.
C9_ReportsOwnRecord ==
    \A k \in DOMAIN reports :
        LET r == reports[k]
            m == units[r.unit].msg
        IN  /\ r.Partition = m.Partition
            /\ r.Offset = m.Offset
            /\ r.Topic = m.Topic

\* C9 witness: partition 2, offset 57 of order_events was reported while
\* the unit of the record with partition 0, offset 0 is still running.
C9_Witness ==
    /\ \E k \in DOMAIN reports :
         /\ reports[k].Partition = 2 /\ reports[k].Offset = 57
         /\ reports[k].Topic = "order_events"
    /\ \E u \in DOMAIN units :
         /\ units[u].pc = "start"
         /\ units[u].msg.Partition = 0 /\ units[u].msg.Offset = 0

\* C10 (as claimed): the consumer subscribes to the base topic name when
\* the prefix is empty and to prefix + base name otherwise, and likewise
\* for its group name.
C10_QualifiedNames ==
    Consumer.state # "nil" =>
        /\ Consumer.topics =
             <<IF env.Prefix = "" THEN TopicName ELSE env.Prefix \o TopicName>>
        /\ Consumer.group =
             IF env.Prefix = "" THEN env.ConsumerGroup
             ELSE env.Prefix \o env.ConsumerGroup

\* C11: for every trusted pool, an endpoint that is reached and presents a
\* leaf not signed by a root of the pool never passes verification, and
\* once it has been tried the process is terminated with no consumer and
\* no producer.
C11_UnsignedNeverAccepted ==
    \A i \in DOMAIN env.URL :
        (env.net[i].dialOK /\ env.net[i].signer \notin env.TrustedCert)
            => /\ verified[i] # "passed"
               /\ ~verifyServerCert(tlsConfig, env.TrustedCert, env.net[i]).ok
               /\ verifyIdx <= i
               /\ Consumer.state = "nil" /\ Producer.state = "nil"
               /\ verified[i] = "failed" => proc.state = "fatal"

\* C11 witness: a reachable endpoint signed outside a non-empty pool was
\* tried and the process is gone.
C11_Witness ==
    \E i \in DOMAIN env.URL :
        /\ env.TrustedCert # {}
        /\ env.net[i].dialOK /\ env.net[i].signer \notin env.TrustedCert
        /\ verified[i] = "failed"
        /\ proc.state = "fatal"

\* C12 (as claimed): a supervisor loop is over only when its sources are
\* closed, and with both handles closed the next iteration of each loop
\* ends it.
C12_LoopsEndWithSources ==
    /\ (supPc.errors = "done" \/ supPc.notifications = "done")
         => Consumer.state = "closed" /\ Producer.state = "closed"
    /\ (Running /\ supPc.errors = "select"
          /\ Consumer.state = "closed" /\ Producer.state = "closed")
         => ENABLED (ShowErrors /\ supPc'.errors = "done")
    /\ (Running /\ supPc.notifications = "select"
          /\ Consumer.state = "closed" /\ Producer.state = "closed")
         => ENABLED (ShowNotifications /\ supPc'.notifications = "done")

\* C13 (as claimed): every reported Message carries a receivedAt that was
\* set at dispatch time, never the unset zero value.
C13_ReceivedAtAssigned ==
    \A k \in DOMAIN reports : reports[k].ReceivedAt # ZeroTime

\* C14: a step in which ShowErrors reports an error changes nothing but
\* its own output: the process goes on, the handles, the record stream,
\* the lifecycle and every goroutine stay where they are, and the loop is
\* at its select again.
C14_ErrorOnlyReported ==
    [][ errLog' # errLog =>
          /\ proc' = proc /\ proc.state = "running"
          /\ Lifecycle' = Lifecycle
          /\ supPc' = supPc /\ supPc.errors = "select"
          /\ UNCHANGED <<env, mainPc, connVars, handleVars, sigVars, loopVars,
                         noteLog>> ]_vars

\* C14 witness: an error was reported while the system is Running.
C14_Witness ==
    /\ "event" \in errLog
    /\ Running /\ Lifecycle = "Running" /\ mainPc = "loop"
    /\ Consumer.state = "open" /\ Producer.state = "open"

\* C15: once the stream is closed with the dispatch loop at its receive
\* and no signal taken by the trap, the system reaches Closed.
C15_StreamEndLeadsToClosed ==
    (Running /\ messagesClosed /\ mainPc = "loop" /\ handlerPc = "wait")
        ~> (Lifecycle = "Closed")

\* C15 witness: the process ended by main's return, both handles closed,
\* with no signal ever delivered.
C15_Witness ==
    /\ proc = Exit("exited", ExitCodeReturn)
    /\ handlerPc = "wait" /\ sigChan = 0
    /\ Consumer.state = "closed" /\ Consumer.closeCalls = 1
    /\ Producer.state = "closed" /\ Producer.closeCalls = 1

\* C16: with an unparsable root bundle or an unparsable client key pair
\* Connect never gets past the verification of the first broker, and no
\* consumer, producer or stored configuration exists.
C16_BadMaterialStopsStartup ==
    (env.TrustedCert = {} \/ ~env.KeyPairOK)
        => /\ mainPc \in {"Connect", "createTLSConfig", "brokerAddresses", "verify"}
           /\ verifyIdx = 1
           /\ \A i \in DOMAIN env.URL : verified[i] # "passed"
           /\ ~env.KeyPairOK => tlsConfig = NilTLS
           /\ Consumer = NilConsumer /\ Producer = NilProducer
           /\ kcConfig = NilConfig

\* C16 witness: only the root bundle is unparsable; the first broker was
\* dialled and the process is gone.
C16_Witness ==
    /\ env.TrustedCert = {} /\ env.KeyPairOK
    /\ env.net[1].dialOK /\ env.net[1].signer = "rootA"
    /\ verified[1] = "failed"
    /\ proc.state = "fatal"

\* C17: after Connect has returned, while the trap has taken no signal and
\* main has not left the dispatch loop, both handles are open; and no
\* step of the dispatch loop, of a handling unit or of a supervisor
\* changes a handle.
C17_RunningHandlesOpen ==
    /\ []( ( kcConfig.stored /\ mainPc \in {"setup", "loop"}
             /\ handlerPc \in {"unborn", "wait"} )
           => Consumer.state = "open" /\ Producer.state = "open" )
    /\ [][ (loopVars' # loopVars \/ errLog' # errLog \/ noteLog' # noteLog)
             => UNCHANGED <<Consumer, Producer>> ]_vars

\* C17 witness: records were dispatched and reported and a supervisor has
\* reported while the system is Running with both handles open.
C17_Witness ==
    /\ Running /\ mainPc = "loop" /\ handlerPc = "wait"
    /\ Len(reports) >= 1 /\ "event" \in noteLog
    /\ Consumer.state = "open" /\ Producer.state = "open"

\* C18: once the trap has taken a signal it never takes another one and
\* never goes back to the start of its close sequence, however many
\* signals are delivered.
C18_TrapRunsOnce ==
    [][ handlerPc \notin {"unborn", "wait"} =>
          /\ sigChan' >= sigChan
          /\ handlerPc' # "wait"
          /\ handlerPc' = "report" => handlerPc = "report"
          /\ shutdownReported => shutdownReported' ]_vars

\* C18 witness: the trap is in its close sequence with two more signals
\* buffered in the channel.
C18_Witness ==
    /\ handlerPc = "closeConsumer"
    /\ sigChan = SignalChanCap
    /\ Running

\* C19: no supervisor ever prints a nil value, and once both handles (and
\* with them the four source channels) are closed the supervisors print
\* nothing more.
C19_NilNeverReported ==
    /\ []("<nil>" \notin errLog \cup noteLog)
    /\ [][ (Consumer.state = "closed" /\ Producer.state = "closed")
             => UNCHANGED <<errLog, noteLog>> ]_vars

\* C19 witness: the supervisors are still looping over closed channels,
\* having reported events before the close.
C19_Witness ==
    /\ Running
    /\ Consumer.state = "closed" /\ Producer.state = "closed"
    /\ supPc.errors = "select" /\ supPc.notifications = "select"
    /\ errLog = {"event"} /\ noteLog = {"event"}

=============================================================================
